---- MODULE Spec2Model ----
(***************************************************************************)
(* Team roster, check-in and seeding services of a tournament              *)
(* (app/services/tournament.ts).  One tournament "T" with two teams, each  *)
(* created with a single captain.  The store behind `db` is a table of     *)
(* member records per team, a check-in timestamp per team, the seed list   *)
(* of the tournament and the trust graph.                                  *)
(***************************************************************************)
EXTENDS Integers, Sequences, FiniteSets, TLC

(* ---------------------------------------------------------------- bounds *)
\* Longest newSeeds list a caller passes to updateSeeds.
MaxSeedLen == 2
\* How many member records the store holds over all teams when every handler
\* runs from start to finish.
MaxRecords == 3
\* The same where rosters fill up to the cap: one team at the cap and the other
\* with its captain alone.
MaxRosterRecords == 7

(* ------------------------------------------------------------- constants *)
\* Imported from ~/constants: the roster cap, 6 by default.
TOURNAMENT_TEAM_ROSTER_MAX_SIZE == 6
\* Imported from ~/constants: how many minutes before the start the check-in
\* nominally closes.  Any value above 3 gives the same window around the cut-off.
TOURNAMENT_CHECK_IN_CLOSING_MINUTES_FROM_START == 10

NULL == "null"
NoTeam == "none"
\* A team's checkedInTime before any check-in and after a check-out.
NullTime == 0

Teams == {"A", "B"}
\* Team ids a caller may pass: the two teams and an id that resolves to nothing.
TeamIds == Teams \cup {"X"}
\* Tournament ids a caller may pass.
TournamentIds == {"T", "T0"}
Users == {"admin", "c1", "c2", "u1"}
\* Users a call names as the joining or the added player.
NewPlayers == {"u1"}
OrganizerAdmins == {"admin"}
InviteCodes == {"codeA", "codeB", "nocode"}
Procs == {"p1", "p2"}

inviteCode(t) == IF t = "A" THEN "codeA" ELSE "codeB"
firstCaptain(t) == IF t = "A" THEN "c1" ELSE "c2"

\* tournament.startTime.getTime(), in milliseconds.
StartTime == 20 * 60000
\* Values of new Date().getTime() around the closing of the check-in:
\* startTime - (closing minutes - k) minutes.
MinutesBeforeStart(k) ==
  StartTime - (TOURNAMENT_CHECK_IN_CLOSING_MINUTES_FROM_START - k) * 60000
\* One reading of the clock on each side of the cut-off.
NowValues == { MinutesBeforeStart(1), MinutesBeforeStart(3) }
\* Readings of the clock around the cut-off, to the millisecond.
WindowNowValues ==
  { MinutesBeforeStart(1), MinutesBeforeStart(2) - 1, MinutesBeforeStart(2),
    MinutesBeforeStart(2) + 1, MinutesBeforeStart(3) }

RECURSIVE SeqsUpTo(_, _)
SeqsUpTo(S, n) ==
  IF n = 0 THEN { <<>> }
  ELSE LET shorter == SeqsUpTo(S, n - 1)
       IN shorter \cup { Append(s, x) : s \in { q \in shorter : Len(q) = n - 1 }, x \in S }

\* newSeeds lists a caller may pass.
SeedLists == SeqsUpTo(TeamIds, MaxSeedLen)
\* The two orders of the tournament's teams.
TeamOrders == { <<"A", "B">>, <<"B", "A">> }

VARIABLES
  members,        \* team id -> list of member records [memberId, captain]
  checkedInTime,  \* team id -> timestamp or NullTime
  seeds,          \* the tournament's stored seed list
  trust,          \* set of <<trustGiverId, trustReceiverId>>
  pending,        \* request handler -> what it holds between its awaits
  found,          \* the team ids of the last tournament page loaded, in its order
  last            \* the last response given to a caller

vars == <<members, checkedInTime, seeds, trust, pending, found, last>>
store == <<members, checkedInTime, seeds, trust>>

Idle == [op |-> "idle"]

(* ------------------------------------------------------------- responses *)
\* What the last call was (handler, team, acting user) and how it ended.
Response(op, teamId, userId, error, status) ==
  [op |-> op, teamId |-> teamId, userId |-> userId, error |-> error, status |-> status]

(* ------------------------------------------------------------ the store *)
RECURSIVE SelectMembers(_, _)
SelectMembers(ms, memberId) ==
  IF ms = <<>> THEN <<>>
  ELSE IF Head(ms).memberId = memberId THEN SelectMembers(Tail(ms), memberId)
       ELSE <<Head(ms)>> \o SelectMembers(Tail(ms), memberId)

\* db.tournamentById
tournamentById(tournamentId) == IF tournamentId = "T" THEN "T" ELSE NULL

\* db.tournamentTeamById
tournamentTeamById(teamId) == IF teamId \in Teams THEN teamId ELSE NULL

\* db.createTournamentTeamMember: one more member record, not a captain.
createTournamentTeamMember(ms, teamId, userId) ==
  [ms EXCEPT ![teamId] = Append(@, [memberId |-> userId, captain |-> FALSE])]

\* db.deleteTournamentTeamMember: keyed by member and tournament, not by team.
deleteTournamentTeamMember(ms, memberId) ==
  [t \in Teams |-> SelectMembers(ms[t], memberId)]

\* db.upsertTrustRelationship
upsertTrustRelationship(tr, trustReceiverId, trustGiverId) ==
  tr \cup { <<trustGiverId, trustReceiverId>> }

\* db.updateTeamCheckIn: the team's checkedInTime becomes the current time.
updateTeamCheckIn(cit, teamId, now) == [cit EXCEPT ![teamId] = now]

\* db.updateTeamCheckOut: the team's checkedInTime becomes null.
updateTeamCheckOut(cit, teamId) == [cit EXCEPT ![teamId] = NullTime]

\* db.updateTournamentSeeds: the stored seeds become the list given.
updateTournamentSeeds(stored, newSeeds) == newSeeds

TotalRecords(ms) == Len(ms["A"]) + Len(ms["B"])

(* ------------------------------------------------------------ predicates *)
isTournamentAdmin(userId) == userId \in OrganizerAdmins

\* members.some(({ memberId, captain }) => captain && memberId === userId)
isCaptainOf(ms, userId) ==
  \E i \in 1..Len(ms) : ms[i].captain /\ ms[i].memberId = userId

\* Index of the first captain record, 0 when there is none (find gives undefined).
findCaptain(ms) ==
  IF \E i \in 1..Len(ms) : ms[i].captain
  THEN CHOOSE i \in 1..Len(ms) : ms[i].captain /\ \A j \in 1..(i - 1) : ~ms[j].captain
  ELSE 0

\* tournamentTeamToJoin.members.find(({ captain }) => captain)!.memberId
trustReceiverId(ms) == ms[findCaptain(ms)].memberId

teamByInviteCode(code) ==
  IF \E t \in Teams : inviteCode(t) = code
  THEN CHOOSE t \in Teams : inviteCode(t) = code
  ELSE NULL

\* The cut-off without the two minutes of slack.
checkInCutOff_noSlack == TOURNAMENT_CHECK_IN_CLOSING_MINUTES_FROM_START

checkInCutOff == TOURNAMENT_CHECK_IN_CLOSING_MINUTES_FROM_START - 2

\* The comparison with <= for <.
checkInClosed_orEqual(now) == StartTime - checkInCutOff * 60000 <= now

checkInClosed(now) == StartTime - checkInCutOff * 60000 < now

\* seeds.indexOf(id): the first position of id, counted from 0, or -1.
indexOf(list, id) ==
  IF \E i \in 1..Len(list) : list[i] = id
  THEN (CHOOSE i \in 1..Len(list) : list[i] = id /\ \A j \in 1..(i - 1) : list[j] # id) - 1
  ELSE -1

\* The comparator sortTeamsBySeed(seeds): seeded teams by their position, teams
\* that are not in the seed list after them.
sortTeamsBySeed(list, a, b) ==
  IF indexOf(list, a) = -1 /\ indexOf(list, b) = -1 THEN 0
  ELSE IF indexOf(list, a) = -1 THEN 1
  ELSE IF indexOf(list, b) = -1 THEN -1
  ELSE indexOf(list, a) - indexOf(list, b)

\* One team put into an already sorted list, after the teams it does not precede.
RECURSIVE insertTeam(_, _, _)
insertTeam(sorted, id, list) ==
  IF sorted = <<>> THEN <<id>>
  ELSE IF sortTeamsBySeed(list, id, Head(sorted)) < 0 THEN <<id>> \o sorted
       ELSE <<Head(sorted)>> \o insertTeam(Tail(sorted), id, list)

\* teams.sort(sortTeamsBySeed(seeds)): a stable sort.
RECURSIVE sortTeams(_, _)
sortTeams(teams, list) ==
  IF teams = <<>> THEN <<>>
  ELSE insertTeam(sortTeams(SubSeq(teams, 1, Len(teams) - 1), list), teams[Len(teams)], list)

\* organizationNameForUrl.toLowerCase()
toLowerCase(name) == IF name = "Org" THEN "org" ELSE name

\* Names a caller may pass for the organization; the organizer's nameForUrl is "org".
OrganizationNames == {"org", "Org", "other"}
\* Names a caller may pass for the tournament; the tournament's is "cup".
TournamentNames == {"cup", "nocup"}
\* The orders in which the store may hand out the teams of the tournament.
StoredOrders == { <<"A", "B">>, <<"B", "A">> }

Init ==
  /\ members = [t \in Teams |-> << [memberId |-> firstCaptain(t), captain |-> TRUE] >>]
  /\ checkedInTime = [t \in Teams |-> NullTime]
  /\ seeds = <<>>
  /\ trust = {}
  /\ pending = [p \in Procs |-> Idle]
  /\ found = <<>>
  /\ last = Response("none", NoTeam, "none", "none", 0)

(* ------------------------------------------- what each handler decides *)
\* joinTeamViaInviteCode up to its writes: the rejection, or "OK".
joinCheck(ms, tournamentId, code) ==
  IF tournamentById(tournamentId) = NULL THEN "InvalidTournament"
  ELSE IF teamByInviteCode(code) = NULL THEN "InvalidInviteCode"
  ELSE IF Len(ms[teamByInviteCode(code)]) >= TOURNAMENT_TEAM_ROSTER_MAX_SIZE THEN "TeamFull"
  ELSE IF findCaptain(ms[teamByInviteCode(code)]) = 0 THEN "TypeError"
  ELSE "OK"

\* putPlayerToTeam that lets an admin of the organization through as well.
putCheck_adminAllowed(ms, teamId, captainId) ==
  IF tournamentTeamById(teamId) = NULL THEN "InvalidTeam"
  ELSE IF Len(ms[teamId]) >= TOURNAMENT_TEAM_ROSTER_MAX_SIZE THEN "TeamFull"
  ELSE IF ~isCaptainOf(ms[teamId], captainId) /\ ~isTournamentAdmin(captainId) THEN "NotCaptain"
  ELSE "OK"

\* putPlayerToTeam up to its write.
putCheck(ms, teamId, captainId) ==
  IF tournamentTeamById(teamId) = NULL THEN "InvalidTeam"
  ELSE IF Len(ms[teamId]) >= TOURNAMENT_TEAM_ROSTER_MAX_SIZE THEN "TeamFull"
  ELSE IF ~isCaptainOf(ms[teamId], captainId) THEN "NotCaptain"
  ELSE "OK"

\* removePlayerFromTeam without its test of checkedInTime.
removeCheck_ignoresCheckIn(ms, cit, teamId, captainId, playerId) ==
  IF captainId = playerId THEN "CannotRemoveCaptain"
  ELSE IF tournamentTeamById(teamId) = NULL THEN "InvalidTeam"
  ELSE IF ~isCaptainOf(ms[teamId], captainId) THEN "NotCaptain"
  ELSE "OK"

\* removePlayerFromTeam that compares captainId and playerId after the tests of the
\* team instead of before them.
removeCheck_loadsTeamFirst(ms, cit, teamId, captainId, playerId) ==
  IF tournamentTeamById(teamId) = NULL THEN "InvalidTeam"
  ELSE IF cit[teamId] # NullTime THEN "AlreadyCheckedIn"
  ELSE IF ~isCaptainOf(ms[teamId], captainId) THEN "NotCaptain"
  ELSE IF captainId = playerId THEN "CannotRemoveCaptain"
  ELSE "OK"

\* removePlayerFromTeam up to its write.
removeCheck(ms, cit, teamId, captainId, playerId) ==
  IF captainId = playerId THEN "CannotRemoveCaptain"
  ELSE IF tournamentTeamById(teamId) = NULL THEN "InvalidTeam"
  ELSE IF cit[teamId] # NullTime THEN "AlreadyCheckedIn"
  ELSE IF ~isCaptainOf(ms[teamId], captainId) THEN "NotCaptain"
  ELSE "OK"

\* checkIn without its test of the caller.
checkInCheck_anyCaller(ms, teamId, userId, now) ==
  IF tournamentTeamById(teamId) = NULL THEN "InvalidTeam"
  ELSE IF ~isTournamentAdmin(userId) /\ checkInClosed(now) THEN "CheckInClosed"
  ELSE "OK"

\* checkIn up to its write.
checkInCheck(ms, teamId, userId, now) ==
  IF tournamentTeamById(teamId) = NULL THEN "InvalidTeam"
  ELSE IF ~isTournamentAdmin(userId) /\ ~isCaptainOf(ms[teamId], userId) THEN "NotCaptain"
  ELSE IF ~isTournamentAdmin(userId) /\ checkInClosed(now) THEN "CheckInClosed"
  ELSE "OK"

\* checkOut without its test of the caller.
checkOutCheck_anyCaller(teamId, userId) ==
  IF tournamentTeamById(teamId) = NULL THEN "InvalidTeam"
  ELSE "OK"

\* checkOut that lets the captain of the team through as well, as checkIn does.
checkOutCheck_captainAllowed(teamId, userId) ==
  IF tournamentTeamById(teamId) = NULL THEN "InvalidTeam"
  ELSE IF ~isTournamentAdmin(userId) /\ ~isCaptainOf(members[teamId], userId) THEN "NotAdmin"
  ELSE "OK"

\* checkOut up to its write.
checkOutCheck(teamId, userId) ==
  IF tournamentTeamById(teamId) = NULL THEN "InvalidTeam"
  ELSE IF ~isTournamentAdmin(userId) THEN "NotAdmin"
  ELSE "OK"

\* updateSeeds up to its write.
updateSeedsCheck(tournamentId, userId) ==
  IF tournamentById(tournamentId) = NULL THEN "InvalidTournament"
  ELSE IF ~isTournamentAdmin(userId) THEN "NotAdmin"
  ELSE "OK"

\* The status of the Response a handler throws (200 when it returns).
statusOf(error) ==
  CASE error = "OK" -> 200
    [] error \in {"NotCaptain", "NotAdmin"} -> 401
    [] error = "TypeError" -> 500
    [] OTHER -> 400

(* ------------------------------------ handlers run from start to finish *)
\* joinTeamViaInviteCode with giver and receiver of the trust edge exchanged.
joinTeamViaInviteCode_swapsTrust(tournamentId, code, userId) ==
  LET error == joinCheck(members, tournamentId, code)
      team == IF error \in {"InvalidTournament", "InvalidInviteCode"}
              THEN NoTeam ELSE teamByInviteCode(code)
  IN /\ IF error = "OK"
        THEN /\ members' = createTournamentTeamMember(members, team, userId)
             /\ trust' = upsertTrustRelationship(trust, userId, trustReceiverId(members[team]))
        ELSE UNCHANGED <<members, trust>>
     /\ last' = Response("join", team, userId, error, statusOf(error))
     /\ UNCHANGED <<checkedInTime, seeds, pending, found>>

joinTeamViaInviteCode(tournamentId, code, userId) ==
  LET error == joinCheck(members, tournamentId, code)
      team == IF error \in {"InvalidTournament", "InvalidInviteCode"}
              THEN NoTeam ELSE teamByInviteCode(code)
  IN /\ IF error = "OK"
        THEN /\ members' = createTournamentTeamMember(members, team, userId)
             /\ trust' = upsertTrustRelationship(trust, trustReceiverId(members[team]), userId)
        ELSE UNCHANGED <<members, trust>>
     /\ last' = Response("join", team, userId, error, statusOf(error))
     /\ UNCHANGED <<checkedInTime, seeds, pending, found>>

putPlayerToTeam(teamId, captainId, newPlayerId) ==
  LET error == putCheck(members, teamId, captainId)
  IN /\ IF error = "OK"
        THEN members' = createTournamentTeamMember(members, teamId, newPlayerId)
        ELSE UNCHANGED members
     /\ last' = Response("put", teamId, captainId, error, statusOf(error))
     /\ UNCHANGED <<checkedInTime, seeds, trust, pending, found>>

removePlayerFromTeam(teamId, captainId, playerId) ==
  LET error == removeCheck(members, checkedInTime, teamId, captainId, playerId)
  IN /\ IF error = "OK"
        THEN members' = deleteTournamentTeamMember(members, playerId)
        ELSE UNCHANGED members
     /\ last' = Response("remove", teamId, captainId, error, statusOf(error))
     /\ UNCHANGED <<checkedInTime, seeds, trust, pending, found>>

\* checkIn that writes the timestamp before it tests the caller and the clock.
checkIn_writesFirst(teamId, userId, now) ==
  LET error == checkInCheck(members, teamId, userId, now)
  IN /\ IF error # "InvalidTeam"
        THEN checkedInTime' = updateTeamCheckIn(checkedInTime, teamId, now)
        ELSE UNCHANGED checkedInTime
     /\ last' = Response("checkIn", teamId, userId, error, statusOf(error))
     /\ UNCHANGED <<members, seeds, trust, pending, found>>

checkIn(teamId, userId, now) ==
  LET error == checkInCheck(members, teamId, userId, now)
  IN /\ IF error = "OK"
        THEN checkedInTime' = updateTeamCheckIn(checkedInTime, teamId, now)
        ELSE UNCHANGED checkedInTime
     /\ last' = Response("checkIn", teamId, userId, error, statusOf(error))
     /\ UNCHANGED <<members, seeds, trust, pending, found>>

checkOut(teamId, userId) ==
  LET error == checkOutCheck(teamId, userId)
  IN /\ IF error = "OK"
        THEN checkedInTime' = updateTeamCheckOut(checkedInTime, teamId)
        ELSE UNCHANGED checkedInTime
     /\ last' = Response("checkOut", teamId, userId, error, statusOf(error))
     /\ UNCHANGED <<members, seeds, trust, pending, found>>

updateSeeds(tournamentId, userId, newSeeds) ==
  LET error == updateSeedsCheck(tournamentId, userId)
  IN /\ IF error = "OK" THEN seeds' = updateTournamentSeeds(seeds, newSeeds) ELSE UNCHANGED seeds
     /\ last' = Response("updateSeeds", NoTeam, userId, error, statusOf(error))
     /\ UNCHANGED <<members, checkedInTime, trust, pending, found>>

\* findTournamentByNameForUrl without the sort of the teams.
findTournamentByNameForUrl_unsorted(organizationNameForUrl, tournamentNameForUrl, teams) ==
  LET error == IF tournamentNameForUrl = "cup" /\ toLowerCase(organizationNameForUrl) = "org"
               THEN "OK" ELSE "NotFound"
  IN /\ IF error = "OK" THEN found' = teams ELSE UNCHANGED found
     /\ last' = Response("find", NoTeam, "none", error, IF error = "OK" THEN 200 ELSE 404)
     /\ UNCHANGED <<store, pending>>

\* findTournamentByNameForUrl, as far as the order of the teams goes.
findTournamentByNameForUrl(organizationNameForUrl, tournamentNameForUrl, teams) ==
  LET error == IF tournamentNameForUrl = "cup" /\ toLowerCase(organizationNameForUrl) = "org"
               THEN "OK" ELSE "NotFound"
  IN /\ IF error = "OK" THEN found' = sortTeams(teams, seeds) ELSE UNCHANGED found
     /\ last' = Response("find", NoTeam, "none", error, IF error = "OK" THEN 200 ELSE 404)
     /\ UNCHANGED <<store, pending>>

\* A call that would write a member record is made while the store has room.
Room(limit, error) == error = "OK" => TotalRecords(members) < limit

Join(limit) ==
  \E tid \in TournamentIds, code \in InviteCodes, u \in NewPlayers :
    /\ Room(limit, joinCheck(members, tid, code))
    /\ joinTeamViaInviteCode(tid, code, u)

AddPlayer(limit) ==
  \E t \in TeamIds, c \in Users, u \in NewPlayers :
    /\ Room(limit, putCheck(members, t, c))
    /\ putPlayerToTeam(t, c, u)

RemovePlayer == \E t \in TeamIds, c \in Users, u \in Users : removePlayerFromTeam(t, c, u)

CheckIn(nows) == \E t \in TeamIds, u \in Users, now \in nows : checkIn(t, u, now)

CheckOut == \E t \in TeamIds, u \in Users : checkOut(t, u)

UpdateSeeds(lists) ==
  \E tid \in TournamentIds, u \in Users, s \in lists : updateSeeds(tid, u, s)

\* Every handler, each call run from start to finish.
Next ==
  \/ Join(MaxRecords)
  \/ AddPlayer(MaxRecords)
  \/ RemovePlayer
  \/ CheckIn(NowValues)
  \/ CheckOut
  \/ UpdateSeeds(TeamOrders)

Spec == Init /\ [][Next]_vars

FindTournament ==
  \E o \in OrganizationNames, n \in TournamentNames, teams \in StoredOrders :
    findTournamentByNameForUrl(o, n, teams)

\* The roster handlers alone.
NextRoster ==
  \/ Join(MaxRecords)
  \/ AddPlayer(MaxRecords)
  \/ RemovePlayer

SpecRoster == Init /\ [][NextRoster]_vars

\* The check-in window to the millisecond, on rosters that change.
NextWindow ==
  \/ AddPlayer(MaxRecords)
  \/ RemovePlayer
  \/ CheckIn(WindowNowValues)
  \/ CheckOut

SpecWindow == Init /\ [][NextWindow]_vars

\* Rosters that change around check-ins and check-outs, at one reading of the
\* clock while the check-in is open.
NextCheckedIn ==
  \/ Join(MaxRecords)
  \/ AddPlayer(MaxRecords)
  \/ RemovePlayer
  \/ CheckIn({MinutesBeforeStart(1)})
  \/ CheckOut

SpecCheckedIn == Init /\ [][NextCheckedIn]_vars

\* Seed lists of every shape, and the tournament page that shows the teams.
NextSeeds ==
  \/ UpdateSeeds(SeedLists)
  \/ FindTournament

SpecSeeds == Init /\ [][NextSeeds]_vars

\* The roster handlers on rosters that fill up to the cap.
NextCap ==
  \/ Join(MaxRosterRecords)
  \/ AddPlayer(MaxRosterRecords)
  \/ RemovePlayer

SpecCap == Init /\ [][NextCap]_vars

(* ------------------------- handlers split at their awaits, run in parallel *)
\* joinTeamViaInviteCode up to the end of `await db.tournamentById`, its checks and
\* the choice of trustReceiverId: a rejection answers the caller, otherwise the
\* two writes of Promise.all are issued.
joinLoad(p, tournamentId, code, userId) ==
  LET error == joinCheck(members, tournamentId, code)
      team == IF error \in {"InvalidTournament", "InvalidInviteCode"}
              THEN NoTeam ELSE teamByInviteCode(code)
  IN /\ pending[p] = Idle
     /\ IF error = "OK"
        THEN /\ pending' = [pending EXCEPT ![p] =
                  [op |-> "join", teamId |-> team, userId |-> userId,
                   trustReceiverId |-> trustReceiverId(members[team]),
                   member |-> "issued", trust |-> "issued"]]
             /\ UNCHANGED last
        ELSE /\ last' = Response("join", team, userId, error, statusOf(error))
             /\ UNCHANGED pending
     /\ UNCHANGED <<store, found>>

\* The state of a join once one of its writes has settled:
\* Promise.all answers when both are fulfilled, or at the first rejection.
joinSettle(p, memberWrite, trustWrite) ==
  /\ pending' = [pending EXCEPT ![p] =
       IF memberWrite # "issued" /\ trustWrite # "issued" THEN Idle
       ELSE [@ EXCEPT !.member = memberWrite, !.trust = trustWrite]]
  /\ last' =
       IF memberWrite = "done" /\ trustWrite = "done"
       THEN Response("join", pending[p].teamId, pending[p].userId, "OK", statusOf("OK"))
       ELSE IF /\ "failed" \in {memberWrite, trustWrite}
               /\ "failed" \notin {pending[p].member, pending[p].trust}
       THEN Response("join", pending[p].teamId, pending[p].userId, "Transient", 500)
       ELSE last

\* db.createTournamentTeamMember of a join takes effect.
joinCreateMember(p) ==
  /\ pending[p].op = "join"
  /\ pending[p].member = "issued"
  /\ members' = createTournamentTeamMember(members, pending[p].teamId, pending[p].userId)
  /\ joinSettle(p, "done", pending[p].trust)
  /\ UNCHANGED <<checkedInTime, seeds, trust, found>>

\* db.upsertTrustRelationship of a join takes effect.
joinUpsertTrust(p) ==
  /\ pending[p].op = "join"
  /\ pending[p].trust = "issued"
  /\ trust' = upsertTrustRelationship(trust, pending[p].trustReceiverId, pending[p].userId)
  /\ joinSettle(p, pending[p].member, "done")
  /\ UNCHANGED <<members, checkedInTime, seeds, found>>

\* db.createTournamentTeamMember of a join is rejected by the store (a time-out).
joinCreateMemberFails(p) ==
  /\ pending[p].op = "join"
  /\ pending[p].member = "issued"
  /\ joinSettle(p, "failed", pending[p].trust)
  /\ UNCHANGED <<store, found>>

\* db.upsertTrustRelationship of a join is rejected by the store (a time-out).
joinUpsertTrustFails(p) ==
  /\ pending[p].op = "join"
  /\ pending[p].trust = "issued"
  /\ joinSettle(p, pending[p].member, "failed")
  /\ UNCHANGED <<store, found>>

\* putPlayerToTeam up to the end of `await db.tournamentTeamById` and its checks.
putLoad(p, teamId, captainId, newPlayerId) ==
  LET error == putCheck(members, teamId, captainId)
  IN /\ pending[p] = Idle
     /\ IF error = "OK"
        THEN /\ pending' = [pending EXCEPT ![p] =
                  [op |-> "put", teamId |-> teamId, userId |-> captainId,
                   newPlayerId |-> newPlayerId]]
             /\ UNCHANGED last
        ELSE /\ last' = Response("put", teamId, captainId, error, statusOf(error))
             /\ UNCHANGED pending
     /\ UNCHANGED <<store, found>>

\* db.createTournamentTeamMember of putPlayerToTeam takes effect.
putCreateMember(p) ==
  /\ pending[p].op = "put"
  /\ members' = createTournamentTeamMember(members, pending[p].teamId, pending[p].newPlayerId)
  /\ pending' = [pending EXCEPT ![p] = Idle]
  /\ last' = Response("put", pending[p].teamId, pending[p].userId, "OK", statusOf("OK"))
  /\ UNCHANGED <<checkedInTime, seeds, trust, found>>

\* The team whose roster the parallel calls fill.
RaceTeam == "A"

JoinLoad == \E p \in Procs, u \in NewPlayers : joinLoad(p, "T", inviteCode(RaceTeam), u)
JoinCreateMember == \E p \in Procs : joinCreateMember(p)
JoinUpsertTrust == \E p \in Procs : joinUpsertTrust(p)
JoinCreateMemberFails == \E p \in Procs : joinCreateMemberFails(p)
JoinUpsertTrustFails == \E p \in Procs : joinUpsertTrustFails(p)
PutLoad == \E p \in Procs, u \in NewPlayers : putLoad(p, RaceTeam, firstCaptain(RaceTeam), u)
PutCreateMember == \E p \in Procs : putCreateMember(p)

\* Joins and additions to one team by request handlers that run in parallel.
NextConc ==
  \/ JoinLoad
  \/ JoinCreateMember
  \/ JoinUpsertTrust
  \/ JoinCreateMemberFails
  \/ JoinUpsertTrustFails
  \/ PutLoad
  \/ PutCreateMember

SpecConc == Init /\ [][NextConc]_vars

\* Members a team took in before the calls the model makes; no call names them.
EarlierMembers == <<"m1", "m2", "m3", "m4">>

\* Team A one member below the cap: its captain and the earlier members.
InitNearCap ==
  /\ members =
       [t \in Teams |->
          << [memberId |-> firstCaptain(t), captain |-> TRUE] >>
            \o (IF t = "A"
                THEN [i \in 1..Len(EarlierMembers) |->
                        [memberId |-> EarlierMembers[i], captain |-> FALSE]]
                ELSE <<>>)]
  /\ checkedInTime = [t \in Teams |-> NullTime]
  /\ seeds = <<>>
  /\ trust = {}
  /\ pending = [p \in Procs |-> Idle]
  /\ found = <<>>
  /\ last = Response("none", NoTeam, "none", "none", 0)

\* Every handler, each call run from start to finish, around a team at the cap.
NextNearCap ==
  \/ Join(MaxRosterRecords)
  \/ AddPlayer(MaxRosterRecords)
  \/ RemovePlayer
  \/ CheckIn(NowValues)
  \/ CheckOut
  \/ UpdateSeeds(TeamOrders)

SpecNearCap == InitNearCap /\ [][NextNearCap]_vars

\* removePlayerFromTeam up to the end of `await db.tournamentTeamById` and its checks.
removeLoad(p, teamId, captainId, playerId) ==
  LET error == removeCheck(members, checkedInTime, teamId, captainId, playerId)
  IN /\ pending[p] = Idle
     /\ IF error = "OK"
        THEN /\ pending' = [pending EXCEPT ![p] =
                  [op |-> "remove", teamId |-> teamId, userId |-> captainId,
                   playerId |-> playerId]]
             /\ UNCHANGED last
        ELSE /\ last' = Response("remove", teamId, captainId, error, statusOf(error))
             /\ UNCHANGED pending
     /\ UNCHANGED <<store, found>>

\* db.deleteTournamentTeamMember of removePlayerFromTeam takes effect.
removeDeleteMember(p) ==
  /\ pending[p].op = "remove"
  /\ members' = deleteTournamentTeamMember(members, pending[p].playerId)
  /\ pending' = [pending EXCEPT ![p] = Idle]
  /\ last' = Response("remove", pending[p].teamId, pending[p].userId, "OK", statusOf("OK"))
  /\ UNCHANGED <<checkedInTime, seeds, trust, found>>

\* The request handler whose removePlayerFromTeam runs next to the other calls.
Remover == "p1"

RemoveLoad == \E t \in TeamIds, c \in Users, u \in Users : removeLoad(Remover, t, c, u)
RemoveDeleteMember == removeDeleteMember(Remover)

\* Rosters and check-ins, with a removal that other calls may overtake between
\* its read of the team and its delete.
NextFreeze ==
  \/ AddPlayer(MaxRecords)
  \/ RemoveLoad
  \/ RemoveDeleteMember
  \/ CheckIn(NowValues)
  \/ CheckOut

SpecFreeze == Init /\ [][NextFreeze]_vars

(* ------------------------------------------------------------ the claims *)
captains(ms) == { i \in 1..Len(ms) : ms[i].captain }

\* C1: no team ever has more members than TOURNAMENT_TEAM_ROSTER_MAX_SIZE, also
\* when joins and additions to the same team run in parallel.
C1_RosterWithinCap ==
  \A t \in Teams : Len(members[t]) <= TOURNAMENT_TEAM_ROSTER_MAX_SIZE

\* C2: every team that has a member has exactly one member with the captain flag.
C2_OneCaptain ==
  \A t \in Teams : Len(members[t]) > 0 => Cardinality(captains(members[t])) = 1

\* C3 as stated: while a team is checked in, every removePlayerFromTeam call on
\* it, whatever captainId and playerId, is answered AlreadyCheckedIn.
C3_EveryRemoveAlreadyCheckedIn ==
  [][(/\ last'.op = "remove"
      /\ last'.teamId \in Teams
      /\ checkedInTime[last'.teamId] # NullTime)
       => \A p \in Users :
            removePlayerFromTeam(last'.teamId, last'.userId, p)
              => last'.error = "AlreadyCheckedIn"]_vars

\* C3 amended: while a team is checked in, a removePlayerFromTeam call on it is
\* answered CannotRemoveCaptain when playerId is captainId and AlreadyCheckedIn
\* otherwise, and removes no member record.
C3_RemoveRejectedWhileCheckedIn ==
  [][(/\ last'.op = "remove"
      /\ last'.teamId \in Teams
      /\ checkedInTime[last'.teamId] # NullTime)
       => /\ members' = members
          /\ last'.status = 400
          /\ \A p \in Users :
               removePlayerFromTeam(last'.teamId, last'.userId, p)
                 => last'.error =
                      (IF p = last'.userId THEN "CannotRemoveCaptain" ELSE "AlreadyCheckedIn")]_vars

\* A call by a team's own captain was answered AlreadyCheckedIn on a checked-in
\* team that has a member besides the captain.
C3_Witness ==
  /\ last.op = "remove"
  /\ last.error = "AlreadyCheckedIn"
  /\ last.teamId \in Teams
  /\ checkedInTime[last.teamId] # NullTime
  /\ isCaptainOf(members[last.teamId], last.userId)
  /\ Len(members[last.teamId]) > 1

\* C4: of the two writes of a join, the member record and the trust edge, either
\* both have taken effect or neither has.
C4_JoinWritesTogether ==
  \A p \in Procs :
    pending[p].op = "join" => ((pending[p].member = "done") <=> (pending[p].trust = "done"))

\* C5: a join that succeeds leaves an edge from the joining user to the captain of
\* the joined team in the trust graph, and when that edge was there already the
\* trust graph is as before.
C5_JoinTrustsCaptain ==
  [][(last'.op = "join" /\ last'.error = "OK")
       => \E i \in captains(members'[last'.teamId]) :
            LET edge == <<last'.userId, members'[last'.teamId][i].memberId>>
            IN /\ edge \in trust'
               /\ trust' \in {trust, trust \cup {edge}}
               /\ edge \in trust => trust' = trust]_vars

\* A join has succeeded and the joining user, now a member, trusts the team's captain.
C5_Witness ==
  /\ last.op = "join"
  /\ last.error = "OK"
  /\ \E i \in 1..Len(members[last.teamId]) :
       /\ members[last.teamId][i].memberId = last.userId
       /\ ~members[last.teamId][i].captain
  /\ \E i \in captains(members[last.teamId]) :
       <<last.userId, members[last.teamId][i].memberId>> \in trust

\* C6: checkIn on an existing team by a user who is neither an admin of the
\* organization nor the captain of the team is answered NotCaptain, status 401, at
\* every reading of the clock, and leaves every check-in timestamp as it was.
C6_CheckInByOtherUserRejected ==
  [][(/\ last'.op = "checkIn"
      /\ last'.teamId \in Teams
      /\ last'.userId \notin OrganizerAdmins
      /\ \A i \in captains(members[last'.teamId]) :
           members[last'.teamId][i].memberId # last'.userId)
       => \A now \in WindowNowValues :
            checkIn(last'.teamId, last'.userId, now)
              => /\ last'.error = "NotCaptain"
                 /\ last'.status = 401
                 /\ checkedInTime' = checkedInTime]_vars

\* A user who is neither admin nor captain of the team was answered NotCaptain.
C6_Witness ==
  /\ last.op = "checkIn"
  /\ last.error = "NotCaptain"
  /\ last.status = 401
  /\ last.teamId \in Teams
  /\ last.userId \notin OrganizerAdmins
  /\ ~isCaptainOf(members[last.teamId], last.userId)
  /\ captains(members[last.teamId]) # {}

\* C7: a captain who is no admin is answered CheckInClosed exactly when
\* startTime - (closing minutes - 2) minutes < now, and is checked in otherwise;
\* an admin checks an existing team in at every reading of the clock.
C7_WindowRule ==
  [][(last'.op = "checkIn" /\ last'.teamId \in Teams)
       => \A now \in WindowNowValues :
            checkIn(last'.teamId, last'.userId, now)
              => LET t == last'.teamId
                     u == last'.userId
                     late == StartTime
                               - (TOURNAMENT_CHECK_IN_CLOSING_MINUTES_FROM_START - 2) * 60000
                               < now
                     checkedIn == /\ last'.error = "OK"
                                  /\ checkedInTime' = [checkedInTime EXCEPT ![t] = now]
                 IN /\ u \in OrganizerAdmins => checkedIn
                    /\ (u \notin OrganizerAdmins /\ isCaptainOf(members[t], u))
                         => /\ last'.error = "CheckInClosed" <=> late
                            /\ late => last'.status = 400 /\ checkedInTime' = checkedInTime
                            /\ ~late => checkedIn]_vars

\* A captain who is no admin has checked the team in at the very cut-off.
C7_Witness ==
  /\ last.op = "checkIn"
  /\ last.error = "OK"
  /\ last.userId \notin OrganizerAdmins
  /\ isCaptainOf(members[last.teamId], last.userId)
  /\ checkedInTime[last.teamId] = MinutesBeforeStart(2)

\* C8 as stated: a captain who is no admin is answered CheckInClosed at
\* startTime - (closing minutes - 1) minutes and is checked in at
\* startTime - (closing minutes - 3) minutes.
C8_ClosedOneMinuteBeforeOpenThreeAfter ==
  [][(/\ last'.op = "checkIn"
      /\ last'.teamId \in Teams
      /\ last'.userId \notin OrganizerAdmins
      /\ isCaptainOf(members[last'.teamId], last'.userId))
       => /\ checkIn(last'.teamId, last'.userId, MinutesBeforeStart(1))
               => last'.error = "CheckInClosed"
          /\ checkIn(last'.teamId, last'.userId, MinutesBeforeStart(3))
               => /\ last'.error = "OK"
                  /\ checkedInTime'[last'.teamId] = MinutesBeforeStart(3)]_vars

\* C8 amended: a captain who is no admin is checked in at
\* startTime - (closing minutes - 1) minutes and is answered CheckInClosed at
\* startTime - (closing minutes - 3) minutes.
C8_OpenOneMinuteBeforeClosedThreeAfter ==
  [][(/\ last'.op = "checkIn"
      /\ last'.teamId \in Teams
      /\ last'.userId \notin OrganizerAdmins
      /\ isCaptainOf(members[last'.teamId], last'.userId))
       => /\ checkIn(last'.teamId, last'.userId, MinutesBeforeStart(1))
               => /\ last'.error = "OK"
                  /\ checkedInTime'[last'.teamId] = MinutesBeforeStart(1)
          /\ checkIn(last'.teamId, last'.userId, MinutesBeforeStart(3))
               => /\ last'.error = "CheckInClosed"
                  /\ checkedInTime' = checkedInTime]_vars

\* A captain who is no admin has checked the team in one minute before the
\* nominal closing.
C8_Witness ==
  /\ last.op = "checkIn"
  /\ last.error = "OK"
  /\ last.userId \notin OrganizerAdmins
  /\ isCaptainOf(members[last.teamId], last.userId)
  /\ checkedInTime[last.teamId] = MinutesBeforeStart(1)

\* newSeeds names every team of the tournament once and nothing else.
IsTeamOrder(list) ==
  /\ Len(list) = Cardinality(Teams)
  /\ \A t \in Teams : \E i \in 1..Len(list) : list[i] = t

\* C9: updateSeeds by an admin with a list that is no order of the tournament's
\* teams is answered InvalidSeedSet and leaves the stored seeds as they were.
C9_BadSeedsRejected ==
  [][(last'.op = "updateSeeds" /\ last'.userId \in OrganizerAdmins)
       => \A list \in SeedLists :
            (updateSeeds("T", last'.userId, list) /\ ~IsTeamOrder(list))
              => last'.error = "InvalidSeedSet" /\ seeds' = seeds]_vars

\* C10: updateSeeds that succeeds stores newSeeds as given, and a tournament page
\* loaded while the stored seeds are an order of the teams shows the teams in
\* exactly that order.
C10_TeamsShownInSeedOrder ==
  [][/\ (last'.op = "updateSeeds" /\ last'.error = "OK")
          => \A list \in SeedLists :
               updateSeeds("T", last'.userId, list) => seeds' = list
     /\ (last'.op = "find" /\ last'.error = "OK" /\ IsTeamOrder(seeds))
          => found' = seeds]_vars

\* The page was loaded after the seeds were set to B before A, and shows B before A.
C10_Witness ==
  /\ last.op = "find"
  /\ last.error = "OK"
  /\ seeds = <<"B", "A">>
  /\ found = <<"B", "A">>

\* C11: checkOut on an existing team sets the team's check-in timestamp to null
\* when the caller is an admin of the organization, and only then; every other
\* caller, the team's captain included, is answered NotAdmin, status 401, and
\* every check-in timestamp stays as it was.
C11_CheckOutAdminOnly ==
  [][(/\ last'.op = "checkOut"
      /\ last'.teamId \in Teams
      /\ checkOut(last'.teamId, last'.userId))
       => IF last'.userId \in OrganizerAdmins
          THEN /\ last'.error = "OK"
               /\ checkedInTime' = [checkedInTime EXCEPT ![last'.teamId] = NullTime]
          ELSE /\ last'.error = "NotAdmin"
               /\ last'.status = 401
               /\ checkedInTime' = checkedInTime]_vars

\* The captain of a checked-in team asked for its check-out and was answered
\* NotAdmin; the team is still checked in.
C11_Witness ==
  /\ last.op = "checkOut"
  /\ last.error = "NotAdmin"
  /\ last.status = 401
  /\ last.teamId \in Teams
  /\ isCaptainOf(members[last.teamId], last.userId)
  /\ checkedInTime[last.teamId] # NullTime

\* C12 as stated: putPlayerToTeam on an existing team with a captainId that is not
\* the team's captain is answered NotCaptain, status 401, whatever the number of
\* members, and adds no member.
C12_NotCaptainWhateverTheCount ==
  [][(/\ last'.op = "put"
      /\ last'.teamId \in Teams
      /\ ~isCaptainOf(members[last'.teamId], last'.userId))
       => \A u \in NewPlayers :
            putPlayerToTeam(last'.teamId, last'.userId, u)
              => /\ last'.error = "NotCaptain"
                 /\ last'.status = 401
                 /\ members' = members]_vars

\* C12 amended: such a call adds no member; it is answered NotCaptain, status
\* 401, while the team has fewer members than the cap, an admin of the
\* organization and a member who is no captain included, and TeamFull, status
\* 400, once the team is at the cap.
C12_NotCaptainBelowTheCap ==
  [][(/\ last'.op = "put"
      /\ last'.teamId \in Teams
      /\ ~isCaptainOf(members[last'.teamId], last'.userId))
       => \A u \in NewPlayers :
            putPlayerToTeam(last'.teamId, last'.userId, u)
              => /\ members' = members
                 /\ IF Len(members[last'.teamId]) >= TOURNAMENT_TEAM_ROSTER_MAX_SIZE
                    THEN last'.error = "TeamFull" /\ last'.status = 400
                    ELSE last'.error = "NotCaptain" /\ last'.status = 401]_vars

\* A member of a team below the cap who is not its captain asked to add a
\* player and was answered NotCaptain.
C12_Witness ==
  /\ last.op = "put"
  /\ last.error = "NotCaptain"
  /\ last.status = 401
  /\ last.teamId \in Teams
  /\ Len(members[last.teamId]) < TOURNAMENT_TEAM_ROSTER_MAX_SIZE
  /\ \E i \in 1..Len(members[last.teamId]) :
       /\ members[last.teamId][i].memberId = last.userId
       /\ ~members[last.teamId][i].captain

\* The teams in which userId has a record, and those in which it is the captain's.
teamsOf(ms, userId) ==
  { t \in Teams : \E i \in 1..Len(ms[t]) : ms[t][i].memberId = userId }

teamsLedBy(ms, userId) == { t \in Teams : isCaptainOf(ms[t], userId) }

\* C13: removePlayerFromTeam with playerId equal to captainId is answered
\* CannotRemoveCaptain, status 400, and removes no member, whether teamId is a
\* team or not, checked in or not, and whether captainId is its captain or not;
\* and no removePlayerFromTeam call with a given captainId, whatever its playerId,
\* takes that user out of a team or takes a captaincy from that user.
C13_CaptainNeverRemovesSelf ==
  [][last'.op = "remove"
       => /\ removePlayerFromTeam(last'.teamId, last'.userId, last'.userId)
               => /\ last'.error = "CannotRemoveCaptain"
                  /\ last'.status = 400
                  /\ members' = members
          /\ teamsOf(members, last'.userId) \subseteq teamsOf(members', last'.userId)
          /\ teamsLedBy(members, last'.userId) \subseteq teamsLedBy(members', last'.userId)]_vars

\* The captain of a checked-in team that has a second member asked to be removed
\* and was answered CannotRemoveCaptain.
C13_Witness ==
  /\ last.op = "remove"
  /\ last.error = "CannotRemoveCaptain"
  /\ last.teamId \in Teams
  /\ isCaptainOf(members[last.teamId], last.userId)
  /\ checkedInTime[last.teamId] # NullTime
  /\ Len(members[last.teamId]) > 1

\* C14: the roster of a team that is checked in, and stays checked in, is the
\* roster it had: no step taken while its check-in timestamp is set changes its
\* member records.
C14_RosterFrozenWhileCheckedIn ==
  [][\A t \in Teams :
       (checkedInTime[t] # NullTime /\ checkedInTime'[t] # NullTime)
         => members'[t] = members[t]]_vars

\* C15: the stored seed list is empty or names every team of the tournament
\* once and nothing else.
C15_SeedsEmptyOrTeamOrder == seeds = <<>> \/ IsTeamOrder(seeds)

\* C16: a removePlayerFromTeam call that succeeds leaves the member records and
\* the check-in timestamp of every team other than teamId as they were, and
\* takes from teamId nothing but records of playerId.
C16_RemoveTouchesOneTeam ==
  [][(last'.op = "remove" /\ last'.error = "OK")
       => /\ \A t \in Teams \ {last'.teamId} :
               members'[t] = members[t] /\ checkedInTime'[t] = checkedInTime[t]
          /\ \E p \in Users :
               members'[last'.teamId] = SelectMembers(members[last'.teamId], p)]_vars

\* The rejections a handler answers with after a test of its own.
Rejections ==
  { "InvalidTournament", "InvalidTeam", "InvalidInviteCode", "TeamFull", "NotCaptain",
    "NotAdmin", "CannotRemoveCaptain", "AlreadyCheckedIn", "CheckInClosed" }

\* C17: a call that is answered with a rejection leaves the member records with
\* their captain flags, the check-in timestamps, the seeds and the trust graph
\* as they were before it.
C17_RejectionLeavesStore ==
  [][last'.error \in Rejections => store' = store]_vars

\* A call to add a player to a team at the cap was answered TeamFull, after a
\* check-in and a join had written to the store.
C17_Witness ==
  /\ last.op = "put"
  /\ last.error = "TeamFull"
  /\ last.teamId \in Teams
  /\ Len(members[last.teamId]) = TOURNAMENT_TEAM_ROSTER_MAX_SIZE
  /\ trust # {}
  /\ \E t \in Teams : checkedInTime[t] # NullTime

\* C18: a check-in timestamp that is set becomes null only in a checkOut of that
\* team that succeeds, called by an admin of the organization; no other call
\* clears it, and a checkIn that succeeds leaves the team checked in, also when
\* it was checked in before.
C18_ClearedOnlyByCheckOut ==
  [][/\ \A t \in Teams :
          (checkedInTime[t] # NullTime /\ checkedInTime'[t] = NullTime)
            => /\ last'.op = "checkOut"
               /\ last'.error = "OK"
               /\ last'.teamId = t
               /\ last'.userId \in OrganizerAdmins
     /\ (last'.op = "checkIn" /\ last'.error = "OK")
          => checkedInTime'[last'.teamId] # NullTime]_vars

\* An admin has checked one team out while the other team is still checked in.
C18_Witness ==
  /\ last.op = "checkOut"
  /\ last.error = "OK"
  /\ last.userId \in OrganizerAdmins
  /\ checkedInTime[last.teamId] = NullTime
  /\ \E t \in Teams : checkedInTime[t] # NullTime

\* How many member records of the tournament carry userId.
recordsOf(ms, userId) ==
  Cardinality({ <<t, i>> \in Teams \X (1..MaxRosterRecords) :
                  i <= Len(ms[t]) /\ ms[t][i].memberId = userId })

\* C19: every user has at most one member record in the tournament: at most one
\* team, and one record in that team's roster.
C19_SingleMembership == \A u \in Users : recordsOf(members, u) <= 1

====
